---- MODULE Spec2Model ----
(***************************************************************************)
(* Walk-forward optimisation engine of services/optuna-optimizer           *)
(* (optimizer.py): the window splitter, a window's trial loop and the      *)
(* aggregation done by run_walk_forward.                                    *)
(*                                                                         *)
(* Rows of the dataset are the positions 0 .. total_len-1; a slice         *)
(* data.iloc[a:b] is the pair <<lo, hi>> of the rows lo .. hi-1 it holds.  *)
(* is_ratio is an IEEE-754 double and window_size * is_ratio is the double *)
(* product, rounded to nearest-even, which int() then truncates.           *)
(***************************************************************************)
EXTENDS Integers, Sequences, FiniteSets, TLC

(***************************************************************************)
(* Bounds of the model.                                                    *)
(***************************************************************************)
MaxLen == 12
MaxSplits == 5
MaxRunLen == 4
MaxRunSplits == 2
MaxRunTrials == 1
MaxTrials == 2
MaxMetric == 1
MaxMultiTrials == 3
MaxTwiceTrials == 2
MaxJobs == 2
MaxWorkerTrials == 2

(***************************************************************************)
(* Python integer arithmetic.                                              *)
(***************************************************************************)
Abs(x) == IF x < 0 THEN -x ELSE x

Min(a, b) == IF a < b THEN a ELSE b

Max(a, b) == IF a > b THEN a ELSE b

\* a // b of Python ints, b # 0: the quotient rounded towards minus infinity.
PyFloorDiv(a, b) ==
    LET q == Abs(a) \div Abs(b)
        exact == (q * Abs(b) = Abs(a))
    IN  IF (a < 0) = (b < 0) THEN q
        ELSE IF exact THEN -q ELSE -(q + 1)

RECURSIVE Gcd(_, _)
Gcd(a, b) == IF b = 0 THEN a ELSE Gcd(b, a % b)

(***************************************************************************)
(* Metric values.  A metric is a float: a finite number (kept exact, as    *)
(* the fraction n/d in lowest terms), an infinity or NaN; the operations   *)
(* are those of Python and numpy floats, which do not raise on infinities, *)
(* NaN or, for numpy, on a zero divisor.                                   *)
(***************************************************************************)
Fin(n, d) ==
    LET g == Gcd(Abs(n), Abs(d))
        sgn == IF d < 0 THEN -1 ELSE 1
    IN  [k |-> "fin", n |-> sgn * (n \div g), d |-> sgn * (d \div g)]

PosInf == [k |-> "pinf", n |-> 0, d |-> 1]

NegInf == [k |-> "ninf", n |-> 0, d |-> 1]

NaN == [k |-> "nan", n |-> 0, d |-> 1]

Num(v) == Fin(v, 1)

XNeg(a) ==
    CASE a.k = "fin" -> Fin(-a.n, a.d)
      [] a.k = "pinf" -> NegInf
      [] a.k = "ninf" -> PosInf
      [] OTHER -> NaN

XAdd(a, b) ==
    CASE a.k = "nan" \/ b.k = "nan" -> NaN
      [] a.k = "fin" /\ b.k = "fin" -> Fin(a.n * b.d + b.n * a.d, a.d * b.d)
      [] a.k = "fin" -> b
      [] b.k = "fin" -> a
      [] a.k = b.k -> a
      [] OTHER -> NaN

XSub(a, b) == XAdd(a, XNeg(b))

XSign(a) ==
    CASE a.k = "pinf" -> 1
      [] a.k = "ninf" -> -1
      [] a.k = "fin" -> (IF a.n > 0 THEN 1 ELSE IF a.n < 0 THEN -1 ELSE 0)
      [] OTHER -> 0

\* a / b of numpy.float64 (x / 0 is an infinity or NaN, with a warning only).
XDiv(a, b) ==
    CASE a.k = "nan" \/ b.k = "nan" -> NaN
      [] a.k # "fin" /\ b.k # "fin" -> NaN
      [] a.k # "fin" -> (IF XSign(a) * (IF XSign(b) < 0 THEN -1 ELSE 1) > 0
                         THEN PosInf ELSE NegInf)
      [] b.k # "fin" -> Num(0)
      [] b.n = 0 -> (IF a.n = 0 THEN NaN ELSE IF a.n > 0 THEN PosInf ELSE NegInf)
      [] OTHER -> Fin(a.n * b.d, a.d * b.n)

\* a < b of floats (false when either is NaN).
XLt(a, b) ==
    CASE a.k = "nan" \/ b.k = "nan" -> FALSE
      [] a.k = "fin" /\ b.k = "fin" -> a.n * b.d < b.n * a.d
      [] a.k = "ninf" -> b.k # "ninf"
      [] b.k = "pinf" -> a.k # "pinf"
      [] OTHER -> FALSE

\* a != 0 of floats (true for NaN and the infinities).
XNonZero(a) == ~(a.k = "fin" /\ a.n = 0)

RECURSIVE XSum(_)
XSum(xs) == IF xs = <<>> THEN Num(0) ELSE XAdd(Head(xs), XSum(Tail(xs)))

\* The sum taken for the mean.
NpSum(xs) == XSum(xs)

\* numpy.mean of a list of floats; NaN (with a warning) for the empty list.
NpMean(xs) == IF xs = <<>> THEN NaN ELSE XDiv(XSum(xs), Num(Len(xs)))

(***************************************************************************)
(* IEEE-754 binary64.  A double is [neg, mant, exp] and stands for         *)
(* (-1)^neg * mant * 2^exp, where mant is a sequence of bits, least        *)
(* significant first, without leading zeros (<<>> is zero).                *)
(***************************************************************************)
Precision == 53

RECURSIVE BitsOfNat(_)
BitsOfNat(n) == IF n = 0 THEN <<>> ELSE <<n % 2>> \o BitsOfNat(n \div 2)

RECURSIVE NatOfBits(_)
NatOfBits(b) == IF b = <<>> THEN 0 ELSE Head(b) + 2 * NatOfBits(Tail(b))

\* The bits of a hexadecimal numeral given most significant digit first.
RECURSIVE HexBits(_)
HexBits(h) ==
    IF h = <<>> THEN <<>>
    ELSE LET d == h[Len(h)]
         IN  <<d % 2, (d \div 2) % 2, (d \div 4) % 2, (d \div 8) % 2>>
                 \o HexBits(SubSeq(h, 1, Len(h) - 1))

RECURSIVE StripZeros(_)
StripZeros(b) ==
    IF b = <<>> THEN <<>>
    ELSE IF b[Len(b)] = 0 THEN StripZeros(SubSeq(b, 1, Len(b) - 1))
    ELSE b

\* b * w for a natural number w: schoolbook multiplication with a carry.
RECURSIVE MulBits(_, _, _)
MulBits(b, w, carry) ==
    IF b = <<>> THEN BitsOfNat(carry)
    ELSE LET t == Head(b) * w + carry
         IN  <<t % 2>> \o MulBits(Tail(b), w, t \div 2)

\* b + 1.
RECURSIVE IncBits(_)
IncBits(b) ==
    IF b = <<>> THEN <<1>>
    ELSE IF Head(b) = 0 THEN <<1>> \o Tail(b)
    ELSE <<0>> \o IncBits(Tail(b))

\* The exact product mant * 2^exp rounded to Precision significant bits,
\* ties to even.
RoundNearestEven(mant, exp) ==
    LET len == Len(mant)
        s == len - Precision
    IN  IF s <= 0 THEN [mant |-> mant, exp |-> exp]
        ELSE LET kept == SubSeq(mant, s + 1, len)
                 guard == mant[s]
                 sticky == \E k \in 1..(s - 1) : mant[k] = 1
                 up == (guard = 1) /\ (sticky \/ kept[1] = 1)
             IN  [mant |-> IF up THEN IncBits(kept) ELSE kept, exp |-> exp + s]

\* float(w) * x for a Python int w and a double x.
FloatMul(w, x) ==
    LET r == RoundNearestEven(MulBits(x.mant, Abs(w), 0), x.exp)
        m == StripZeros(r.mant)
    IN  [neg |-> (m # <<>>) /\ ((w < 0) # x.neg), mant |-> m, exp |-> r.exp]

\* int(x): the double truncated towards zero.
IntOfFloat(x) ==
    LET mag == IF x.exp >= 0
               THEN NatOfBits(x.mant) * (2 ^ x.exp)
               ELSE IF -x.exp >= Len(x.mant) THEN 0
               ELSE NatOfBits(SubSeq(x.mant, 1 - x.exp, Len(x.mant)))
    IN  IF x.neg THEN -mag ELSE mag

\* 0 < x < 1 for a double x.
InOpenUnit(x) == ~x.neg /\ x.mant # <<>> /\ Len(x.mant) + x.exp <= 0

Double(neg, hex, exp) == [neg |-> neg, mant |-> StripZeros(HexBits(hex)), exp |-> exp]

\* The doubles nearest to the decimal literals a caller writes for is_ratio
\* (float.hex of the literal, exponent of the last mantissa bit).
Ratio ==
    [ r050 |-> Double(FALSE, <<1>>, -1),
      r070 |-> Double(FALSE, <<1,6,6,6,6,6,6,6,6,6,6,6,6,6>>, -53),
      r029 |-> Double(FALSE, <<1,2,8,15,5,12,2,8,15,5,12,2,8,15>>, -54),
      r090 |-> Double(FALSE, <<1,12,12,12,12,12,12,12,12,12,12,12,12,13>>, -53),
      r000 |-> Double(FALSE, <<>>, 0),
      r100 |-> Double(FALSE, <<1>>, 0),
      r150 |-> Double(FALSE, <<3>>, -1),
      m050 |-> Double(TRUE, <<1>>, -1) ]

RatioNames == {"r050", "r070", "r029", "r090", "r000", "r100", "r150", "m050"}

(***************************************************************************)
(* State.  total_len, n_splits, is_ratio, direction and n_trials are the   *)
(* arguments and the configuration of one call; the rest is what the call  *)
(* has built so far.                                                       *)
(***************************************************************************)
VARIABLES
    total_len,      \* len(data)
    n_splits,       \* argument n_splits
    is_ratio,       \* argument is_ratio, a name of Ratio
    direction,      \* config.direction
    n_trials,       \* config.n_trials
    pc,             \* where the call stands
    splits,         \* the list split_walk_forward returned
    error,          \* the exception that left the call, "none" without one
    window,         \* window_idx of the window being optimised
    trials,         \* study.trials inside optimize_window, in order
    results,        \* the window results appended so far
    summary,        \* the summary returned, once pc = "done"
    n_eval,         \* number of calls of backtest_func made so far
    last_call,      \* the latest call of backtest_func and how it ended;
                    \* failed counts the in-sample backtests of its window
                    \* that raised
    timeout,        \* config.timeout: "None" or "set"
    stopped,        \* the timeout has ended the trial loop of the window
    n_ask,          \* number of trials whose parameters were asked for so far
    objectives,     \* MultiObjectiveOptimizer.objectives
    directions,     \* MultiObjectiveOptimizer.directions
    front,          \* what MultiObjectiveOptimizer.optimize returned
    script,         \* what the sampler and backtest_func did at each trial
                    \* number of the multi-objective call, in order
    first,          \* what the previous multi-objective call returned
    n_jobs,         \* config.n_jobs
    jobs,           \* the trials study.optimize has submitted to its workers,
                    \* by trial number, and how far each one is
    storage,        \* config.storage: "None" or "set"
    stored,         \* the trials the storage holds, per window study
    run             \* 1 in the first call of run_walk_forward, 2 in a second

vars == <<total_len, n_splits, is_ratio, direction, n_trials, pc, splits, error,
          window, trials, results, summary, n_eval, last_call, timeout, stopped,
          n_ask, objectives, directions, front, script, first, n_jobs, jobs,
          storage, stored, run>>

config == <<total_len, n_splits, is_ratio, direction, n_trials, timeout,
            objectives, directions, n_jobs, storage>>

multi == <<front, script, first>>

\* No multi-objective call has returned.
NoFront == [returned |-> FALSE, n_solutions |-> 0, pareto_trials |-> <<>>]

NoRun == [error |-> "none", front |-> NoFront, made |-> FALSE, script |-> <<>>]

\* One call, its trials run one after the other, no storage configured.
SingleCall ==
    /\ n_jobs = 1
    /\ jobs = <<>>
    /\ storage = "None"
    /\ stored = <<>>
    /\ run = 1

\* create_study(study_name, storage, load_if_exists=True): the trials the
\* study of window window_idx starts with.
Load(window_idx) ==
    IF storage = "set" /\ window_idx <= Len(stored) THEN stored[window_idx] ELSE <<>>

\* The storage once the study of window window_idx holds the trials ts.
Save(window_idx, ts) ==
    IF storage # "set" THEN stored
    ELSE IF window_idx <= Len(stored) THEN [stored EXCEPT ![window_idx] = ts]
    ELSE Append(stored, ts)

\* The trials this call of study.optimize has made in the current window.
Made == Len(trials) - Len(Load(window))

\* The walk-forward calls involve no MultiObjectiveOptimizer.
NoMultiObjective ==
    /\ objectives = <<>>
    /\ directions = <<>>
    /\ front = NoFront
    /\ script = <<>>
    /\ first = NoRun

NoSummary ==
    [n_windows |-> 0, avg_is_metric |-> NaN, avg_oos_metric |-> NaN,
     avg_is_oos_diff |-> NaN, overfit_ratio |-> NaN, robust_params |-> {}]

NoCall == [phase |-> "none", window |-> 0, data |-> <<0, 0>>, params |-> {},
           raised |-> FALSE, metrics |-> {}, failed |-> 0]

\* The in-sample backtests of window window_idx that have raised so far.
Failed(window_idx) ==
    IF last_call.phase = "in_sample" /\ last_call.window = window_idx
    THEN last_call.failed ELSE 0

(***************************************************************************)
(* split_walk_forward                                                      *)
(***************************************************************************)
\* data.iloc[a:b] on total_len rows: the positions a Python slice selects.
PySlice(a, b, len) ==
    LET lo == IF a < 0 THEN Max(a + len, 0) ELSE Min(a, len)
        hi == IF b < 0 THEN Max(b + len, 0) ELSE Min(b, len)
    IN  <<lo, Max(lo, hi)>>

WindowSize(len, n) == PyFloorDiv(len, n)

IsSize(window_size, ratio) == IntOfFloat(FloatMul(window_size, ratio))

\* A slip: the whole window taken as the out-of-sample size.
OosSizeWhole(window_size, is_size) == window_size

OosSize(window_size, is_size) == window_size - is_size

\* A slip: windows that advance by half a window (a rolling scheme).
StartIdxRolling(i, window_size) == i * (window_size \div 2)

StartIdx(i, window_size) == i * window_size

IsEndIdx(start_idx, is_size) == start_idx + is_size

OosEndIdx(is_end_idx, oos_size, len) == Min(is_end_idx + oos_size, len)

\* The body of "for i in range(n_splits)" from iteration i on.
RECURSIVE SplitLoop(_, _, _, _, _, _)
SplitLoop(i, acc, n, window_size, is_size, len) ==
    IF i >= n THEN acc
    ELSE LET start_idx == StartIdx(i, window_size)
             is_end_idx == IsEndIdx(start_idx, is_size)
             oos_end_idx == OosEndIdx(is_end_idx, OosSize(window_size, is_size), len)
         IN  IF oos_end_idx > len THEN acc
             ELSE SplitLoop(i + 1,
                            Append(acc, [is |-> PySlice(start_idx, is_end_idx, len),
                                         oos |-> PySlice(is_end_idx, oos_end_idx, len)]),
                            n, window_size, is_size, len)

split_walk_forward(len, n, ratio) ==
    IF n = 0 THEN [error |-> "ZeroDivisionError", splits |-> <<>>]
    ELSE LET window_size == WindowSize(len, n)
         IN  [error |-> "none",
              splits |-> SplitLoop(0, <<>>, n, window_size, IsSize(window_size, ratio), len)]

(***************************************************************************)
(* The collaborators.  A dict is the set of its (key, value) pairs.        *)
(* backtest_func either raises or returns a dict of metrics; the sampler   *)
(* behind trial.suggest_* may return any value the declared range allows.  *)
(***************************************************************************)
Metric == "sharpe_ratio"

MetricValues == {Num(v) : v \in (-1)..MaxMetric}

MetricDicts == {{<<Metric, v>>} : v \in MetricValues} \cup {{<<"total_return", Num(1)>>}}

Outcomes == {[raised |-> TRUE, metrics |-> {}]}
                \cup {[raised |-> FALSE, metrics |-> m] : m \in MetricDicts}

\* dict.get(key, default)
Get(dict, key, default) ==
    IF \E kv \in dict : kv[1] = key
    THEN (CHOOSE kv \in dict : kv[1] = key)[2]
    ELSE default

\* The param_space given to the optimizer: one int parameter with two values.
ParamSpace == [fast_period |-> [type |-> "int", low |-> 5, high |-> 10, step |-> 5]]

\* The values trial.suggest_int(name, low, high, step) can return.
SuggestInt(cfg) == {cfg.low + k * cfg.step : k \in 0..((cfg.high - cfg.low) \div cfg.step)}

\* The dicts the sampling loop of objective can build.
Suggestions ==
    {{<<name, f[name]>> : name \in DOMAIN ParamSpace} :
        f \in {g \in [DOMAIN ParamSpace -> 0..10] :
                  \A name \in DOMAIN ParamSpace : g[name] \in SuggestInt(ParamSpace[name])}}

(***************************************************************************)
(* optimize_window                                                         *)
(***************************************************************************)
\* A slip: the infinities of the two directions exchanged.
WorstValueSwapped(dir) == IF dir = "maximize" THEN PosInf ELSE NegInf

WorstValue(dir) == IF dir = "maximize" THEN NegInf ELSE PosInf

\* dict.get(self.config.metric, 0.0) on the metrics backtest_func returned.
MetricValue(metrics) == Get(metrics, Metric, Num(0))

\* The value objective returns for a trial whose backtest ended as outcome.
objective(outcome, dir) ==
    IF outcome.raised THEN WorstValue(dir) ELSE MetricValue(outcome.metrics)

\* An improvement test that also accepts a tie.
BetterOrEqual(a, b, dir) == IF dir = "maximize" THEN ~XLt(a, b) ELSE ~XLt(b, a)

\* a is strictly better than b in the study's direction.
Better(a, b, dir) == IF dir = "maximize" THEN XLt(b, a) ELSE XLt(a, b)

\* study.best_trial: the study keeps its best trial and replaces it only by a
\* strictly better one, so the earliest of equally good trials stays.
RECURSIVE BestFrom(_, _, _, _)
BestFrom(ts, k, best, dir) ==
    IF k > Len(ts) THEN best
    ELSE BestFrom(ts, k + 1, IF Better(ts[k].value, ts[best].value, dir) THEN k ELSE best, dir)

\* The latest trial taken for the best one.
LatestTrial(ts, dir) == ts[Len(ts)]

BestTrial(ts, dir) == ts[BestFrom(ts, 2, 1, dir)]

\* A result numbered from 0, as enumerate counts.
WindowResultFromZero(window_idx, best, oos_value, ts) ==
    [window |-> window_idx - 1,
     best_params |-> best.params,
     is_metric |-> best.value,
     oos_metric |-> oos_value,
     is_oos_diff |-> XSub(best.value, oos_value),
     n_trials |-> Len(ts)]

WindowResult(window_idx, best, oos_value, ts) ==
    [window |-> window_idx,
     best_params |-> best.params,
     is_metric |-> best.value,
     oos_metric |-> oos_value,
     is_oos_diff |-> XSub(best.value, oos_value),
     n_trials |-> Len(ts)]

(***************************************************************************)
(* run_walk_forward: the aggregation                                       *)
(***************************************************************************)
Column(rs, field) == [i \in 1..Len(rs) |-> rs[i][field]]

\* A slip: the division without its guard.
OverfitRatioUnguarded(avg_is_metric, avg_oos_metric) ==
    XDiv(XSub(avg_is_metric, avg_oos_metric), avg_is_metric)

OverfitRatio(avg_is_metric, avg_oos_metric) ==
    IF XNonZero(avg_is_metric)
    THEN XDiv(XSub(avg_is_metric, avg_oos_metric), avg_is_metric)
    ELSE Num(0)

\* param_frequency[params]: the windows whose best_params equal params.
Frequency(rs, params) == Cardinality({i \in 1..Len(rs) : rs[i].best_params = params})

\* A maximum taken with >= in place of >: the last of the most frequent
\* assignments wins.
RECURSIVE MostCommonFromLast(_, _, _)
MostCommonFromLast(rs, k, best) ==
    IF k > Len(rs) THEN rs[best].best_params
    ELSE MostCommonFromLast(rs, k + 1,
            IF Frequency(rs, rs[k].best_params) >= Frequency(rs, rs[best].best_params)
            THEN k ELSE best)

\* max(param_frequency.items(), key=count): the dict is walked in insertion
\* order and an entry replaces the maximum only if its count is greater.
RECURSIVE MostCommonFrom(_, _, _)
MostCommonFrom(rs, k, best) ==
    IF k > Len(rs) THEN rs[best].best_params
    ELSE MostCommonFrom(rs, k + 1,
            IF Frequency(rs, rs[k].best_params) > Frequency(rs, rs[best].best_params)
            THEN k ELSE best)

RobustParams(rs) == MostCommonFrom(rs, 2, 1)

Summary(rs) ==
    LET avg_is_metric == NpMean(Column(rs, "is_metric"))
        avg_oos_metric == NpMean(Column(rs, "oos_metric"))
        avg_diff == NpMean(Column(rs, "is_oos_diff"))
    IN  [n_windows |-> Len(rs),
         avg_is_metric |-> avg_is_metric,
         avg_oos_metric |-> avg_oos_metric,
         avg_is_oos_diff |-> avg_diff,
         overfit_ratio |-> OverfitRatio(avg_is_metric, avg_oos_metric),
         robust_params |-> RobustParams(rs)]

(***************************************************************************)
(* run_walk_forward as a process: it stops at every call of backtest_func, *)
(* whose outcome is not the engine's to choose.                            *)
(***************************************************************************)
\* The service configures direction = "maximize" for every run (api.py).
Init ==
    /\ total_len = MaxRunLen
    /\ n_splits \in -1..MaxRunSplits
    /\ is_ratio = "r070"
    /\ direction = "maximize"
    /\ n_trials \in 0..MaxRunTrials
    /\ pc = "run"
    /\ splits = <<>>
    /\ error = "none"
    /\ window = 0
    /\ trials = <<>>
    /\ results = <<>>
    /\ summary = NoSummary
    /\ n_eval = 0
    /\ last_call = NoCall
    /\ timeout = "None"
    /\ stopped = FALSE
    /\ n_ask = 0
    /\ SingleCall
    /\ NoMultiObjective

\* run_walk_forward up to the first window: the split; a window's study is
\* created empty (no storage is configured).
StartRun ==
    /\ pc = "run"
    /\ LET r == split_walk_forward(total_len, n_splits, Ratio[is_ratio])
       IN  /\ splits' = r.splits
           /\ error' = r.error
           /\ pc' = IF r.error # "none" THEN "failed"
                    ELSE IF r.splits = <<>> THEN "aggregate" ELSE "trials"
           /\ window' = IF r.error = "none" /\ r.splits # <<>> THEN 1 ELSE 0
           /\ trials' = IF r.error = "none" /\ r.splits # <<>> THEN Load(1) ELSE <<>>
    /\ UNCHANGED <<config, results, summary, n_eval, last_call, stopped, n_ask,
                   multi, jobs, stored, run>>

\* A trial whose backtest is handed the whole window, out-of-sample rows
\* included.
RunTrialOnWindow ==
    /\ pc = "trials"
    /\ Made < n_trials
    /\ ~stopped
    /\ \E params \in Suggestions, outcome \in Outcomes :
          /\ trials' = Append(trials, [params |-> params,
                                       value |-> objective(outcome, direction)])
          /\ last_call' = [phase |-> "in_sample", window |-> window,
                           data |-> <<splits[window].is[1], splits[window].oos[2]>>,
                           params |-> params,
                           raised |-> outcome.raised, metrics |-> outcome.metrics,
                           failed |-> Failed(window) + (IF outcome.raised THEN 1 ELSE 0)]
    /\ n_eval' = n_eval + 1
    /\ n_ask' = n_ask + 1
    /\ UNCHANGED <<config, pc, splits, error, window, results, summary, stopped,
                   multi,
                   jobs, stored, run>>

\* One trial of study.optimize: the parameters are sampled, backtest_func runs
\* on the in-sample data and the value objective returns is recorded.
RunTrial ==
    /\ pc = "trials"
    /\ Made < n_trials
    /\ ~stopped
    /\ \E params \in Suggestions, outcome \in Outcomes :
          /\ trials' = Append(trials, [params |-> params,
                                       value |-> objective(outcome, direction)])
          /\ last_call' = [phase |-> "in_sample", window |-> window,
                           data |-> splits[window].is, params |-> params,
                           raised |-> outcome.raised, metrics |-> outcome.metrics,
                           failed |-> Failed(window) + (IF outcome.raised THEN 1 ELSE 0)]
    /\ n_eval' = n_eval + 1
    /\ n_ask' = n_ask + 1
    /\ UNCHANGED <<config, pc, splits, error, window, results, summary, stopped,
                   multi,
                   jobs, stored, run>>

\* study.best_params and study.best_value raise ValueError in a study without
\* a completed trial.
NoBestTrial ==
    /\ pc = "trials"
    /\ Made >= n_trials \/ stopped
    /\ trials = <<>>
    /\ pc' = "failed"
    /\ error' = "ValueError"
    /\ UNCHANGED <<config, splits, window, trials, results, summary, n_eval,
                   last_call, stopped, n_ask, multi,
                   jobs, stored, run>>

\* An out-of-sample evaluation guarded like the in-sample ones: a raise is
\* recorded as the worst value and the run goes on.
EvaluateOosRecovered ==
    /\ pc = "trials"
    /\ Made >= n_trials \/ stopped
    /\ trials # <<>>
    /\ \E outcome \in Outcomes :
          LET best == BestTrial(trials, direction)
          IN  /\ last_call' = [phase |-> "out_of_sample", window |-> window,
                               data |-> splits[window].oos, params |-> best.params,
                               raised |-> outcome.raised, metrics |-> outcome.metrics,
                               failed |-> Failed(window)]
              /\ n_eval' = n_eval + 1
              /\ results' = Append(results,
                    WindowResult(window, best, objective(outcome, direction), trials))
              /\ error' = error
              /\ IF window < Len(splits)
                 THEN /\ window' = window + 1
                      /\ pc' = "trials"
                      /\ trials' = Load(window + 1)
                 ELSE /\ pc' = "aggregate"
                      /\ trials' = <<>>
                      /\ UNCHANGED window
    /\ stored' = Save(window, trials)
    /\ jobs' = <<>>
    /\ stopped' = FALSE
    /\ UNCHANGED <<config, splits, summary, n_ask, multi, run>>

\* The rest of optimize_window once study.optimize has returned: the best
\* trial's parameters are run on the out-of-sample data, outside any try, and
\* the window result goes to the list; then the next window starts with a
\* study of its own.
EvaluateOos ==
    /\ pc = "trials"
    /\ Made >= n_trials \/ stopped
    /\ trials # <<>>
    /\ \E outcome \in Outcomes :
          LET best == BestTrial(trials, direction)
          IN  /\ last_call' = [phase |-> "out_of_sample", window |-> window,
                               data |-> splits[window].oos, params |-> best.params,
                               raised |-> outcome.raised, metrics |-> outcome.metrics,
                               failed |-> Failed(window)]
              /\ n_eval' = n_eval + 1
              /\ IF outcome.raised
                 THEN /\ pc' = "failed"
                      /\ error' = "BacktestError"
                      /\ trials' = <<>>
                      /\ UNCHANGED <<window, results>>
                 ELSE /\ results' = Append(results,
                            WindowResult(window, best, MetricValue(outcome.metrics), trials))
                      /\ error' = error
                      /\ IF window < Len(splits)
                         THEN /\ window' = window + 1
                              /\ pc' = "trials"
                              /\ trials' = Load(window + 1)
                         ELSE /\ pc' = "aggregate"
                              /\ trials' = <<>>
                              /\ UNCHANGED window
    /\ stored' = Save(window, trials)
    /\ jobs' = <<>>
    /\ stopped' = FALSE
    /\ UNCHANGED <<config, splits, summary, n_ask, multi, run>>

\* The aggregation; max() of the empty param_frequency raises ValueError.
Aggregate ==
    /\ pc = "aggregate"
    /\ IF results = <<>>
       THEN /\ pc' = "failed"
            /\ error' = "ValueError"
            /\ UNCHANGED summary
       ELSE /\ pc' = "done"
            /\ summary' = Summary(results)
            /\ UNCHANGED error
    /\ UNCHANGED <<config, splits, window, trials, results, n_eval, last_call,
                   stopped, n_ask, multi,
                   jobs, stored, run>>

Next == StartRun \/ RunTrial \/ NoBestTrial \/ EvaluateOos \/ Aggregate

Spec == Init /\ [][Next]_vars

(***************************************************************************)
(* A run over a single window, with a larger budget of trials, on empty    *)
(* and on non-empty data.                                                  *)
(***************************************************************************)
InitWindow ==
    /\ total_len \in {0, MaxRunLen}
    /\ n_splits = 1
    /\ is_ratio = "r070"
    /\ direction \in {"maximize", "minimize"}
    /\ n_trials \in 0..MaxTrials
    /\ pc = "run"
    /\ splits = <<>>
    /\ error = "none"
    /\ window = 0
    /\ trials = <<>>
    /\ results = <<>>
    /\ summary = NoSummary
    /\ n_eval = 0
    /\ last_call = NoCall
    /\ timeout = "None"
    /\ stopped = FALSE
    /\ n_ask = 0
    /\ SingleCall
    /\ NoMultiObjective

SpecWindow == InitWindow /\ [][Next]_vars

(***************************************************************************)
(* A run over a single window in which the sampler may raise and a timeout *)
(* may be configured.                                                      *)
(***************************************************************************)
InitStop ==
    /\ total_len = MaxRunLen
    /\ n_splits = 1
    /\ is_ratio = "r070"
    /\ direction = "maximize"
    /\ n_trials \in 0..MaxTrials
    /\ pc = "run"
    /\ splits = <<>>
    /\ error = "none"
    /\ window = 0
    /\ trials = <<>>
    /\ results = <<>>
    /\ summary = NoSummary
    /\ n_eval = 0
    /\ last_call = NoCall
    /\ timeout \in {"None", "set"}
    /\ stopped = FALSE
    /\ n_ask = 0
    /\ SingleCall
    /\ NoMultiObjective

\* A sampler failure caught inside the trial: the trial is recorded with the
\* worst value and the loop goes on.
SuggestFailsRecorded ==
    /\ pc = "trials"
    /\ Made < n_trials
    /\ ~stopped
    /\ n_ask' = n_ask + 1
    /\ trials' = Append(trials, [params |-> {}, value |-> WorstValue(direction)])
    /\ UNCHANGED <<config, pc, splits, error, window, results, summary, n_eval,
                   last_call, stopped, multi,
                   jobs, stored, run>>

\* A trial whose trial.suggest_* call raises: the sampling is outside the try
\* of objective and study.optimize is called without catch, so the exception
\* leaves study.optimize, optimize_window and run_walk_forward.
SuggestFails ==
    /\ pc = "trials"
    /\ Made < n_trials
    /\ ~stopped
    /\ n_ask' = n_ask + 1
    /\ pc' = "failed"
    /\ error' = "SamplerError"
    /\ stored' = Save(window, trials)
    /\ UNCHANGED <<config, splits, window, trials, results, summary, n_eval,
                   last_call, stopped, multi,
                   jobs, run>>

\* study.optimize tests the timeout between two trials and returns once it
\* has passed, however many trials are complete.
Timeout ==
    /\ pc = "trials"
    /\ timeout = "set"
    /\ Made < n_trials
    /\ ~stopped
    /\ stopped' = TRUE
    /\ UNCHANGED <<config, pc, splits, error, window, trials, results, summary,
                   n_eval, last_call, n_ask, multi,
                   jobs, stored, run>>

NextStop == Next \/ SuggestFails \/ Timeout

SpecStop == InitStop /\ [][NextStop]_vars

(***************************************************************************)
(* Two calls of run_walk_forward with the same configuration, over a       *)
(* single window, with and without a storage.                              *)
(***************************************************************************)
InitRerun ==
    /\ total_len = MaxRunLen
    /\ n_splits = 1
    /\ is_ratio = "r070"
    /\ direction = "maximize"
    /\ n_trials \in 0..MaxRunTrials
    /\ pc = "run"
    /\ splits = <<>>
    /\ error = "none"
    /\ window = 0
    /\ trials = <<>>
    /\ results = <<>>
    /\ summary = NoSummary
    /\ n_eval = 0
    /\ last_call = NoCall
    /\ timeout = "None"
    /\ stopped = FALSE
    /\ n_ask = 0
    /\ n_jobs = 1
    /\ jobs = <<>>
    /\ storage \in {"None", "set"}
    /\ stored = <<>>
    /\ run = 1
    /\ NoMultiObjective

\* The second call of run_walk_forward: everything of the first call is gone
\* but what the storage holds.
RunAgain ==
    /\ pc \in {"done", "failed"}
    /\ run = 1
    /\ run' = 2
    /\ pc' = "run"
    /\ splits' = <<>>
    /\ error' = "none"
    /\ window' = 0
    /\ trials' = <<>>
    /\ results' = <<>>
    /\ summary' = NoSummary
    /\ n_eval' = 0
    /\ n_ask' = 0
    /\ last_call' = NoCall
    /\ stopped' = FALSE
    /\ UNCHANGED <<config, multi, jobs, stored>>

NextRerun == Next \/ RunAgain

SpecRerun == InitRerun /\ [][NextRerun]_vars

(***************************************************************************)
(* The trial loop of a window on n_jobs workers.  study.optimize submits   *)
(* one trial at a time to a pool of n_jobs threads, never more than the    *)
(* budget, and returns when all of them are done; a worker runs objective  *)
(* for its trial: it samples the parameters, calls backtest_func and the   *)
(* value is told to the study.  The code takes no lock of its own.         *)
(***************************************************************************)
InitWorkers ==
    /\ total_len = MaxRunLen
    /\ n_splits = 1
    /\ is_ratio = "r070"
    /\ direction = "maximize"
    /\ n_trials \in 0..MaxWorkerTrials
    /\ pc = "run"
    /\ splits = <<>>
    /\ error = "none"
    /\ window = 0
    /\ trials = <<>>
    /\ results = <<>>
    /\ summary = NoSummary
    /\ n_eval = 0
    /\ last_call = NoCall
    /\ timeout = "None"
    /\ stopped = FALSE
    /\ n_ask = 0
    /\ n_jobs \in 1..MaxJobs
    /\ jobs = <<>>
    /\ storage = "None"
    /\ stored = <<>>
    /\ run = 1
    /\ NoMultiObjective

\* The trials submitted and not yet told.
InFlight == {t \in 1..Len(jobs) : jobs[t].stage # "told"}

\* A submission test that lets one trial too many through.
CanSubmitOneMore(n_submitted, budget) == n_submitted <= budget

\* study.optimize stops submitting after n_trials submissions.
CanSubmit(n_submitted, budget) == n_submitted < budget

\* A trial is handed to a free worker, which starts on its objective.
Submit ==
    /\ pc = "trials"
    /\ CanSubmit(Len(jobs), n_trials)
    /\ Cardinality(InFlight) < n_jobs
    /\ jobs' = Append(jobs, [stage |-> "asking", params |-> {},
                             outcome |-> [raised |-> FALSE, metrics |-> {}]])
    /\ UNCHANGED <<config, pc, splits, error, window, trials, results, summary,
                   n_eval, last_call, stopped, n_ask, multi, stored, run>>

\* The worker of a trial gets its parameters from trial.suggest_* and calls
\* backtest_func on the in-sample data.
Sample ==
    /\ pc = "trials"
    /\ \E t \in 1..Len(jobs), params \in Suggestions :
          /\ jobs[t].stage = "asking"
          /\ jobs' = [jobs EXCEPT ![t].stage = "running", ![t].params = params]
    /\ n_ask' = n_ask + 1
    /\ UNCHANGED <<config, pc, splits, error, window, trials, results, summary,
                   n_eval, last_call, stopped, multi, stored, run>>

\* backtest_func returns or raises in the worker of a trial.
Finish ==
    /\ pc = "trials"
    /\ \E t \in 1..Len(jobs), outcome \in Outcomes :
          /\ jobs[t].stage = "running"
          /\ jobs' = [jobs EXCEPT ![t].stage = "telling", ![t].outcome = outcome]
          /\ last_call' = [phase |-> "in_sample", window |-> window,
                           data |-> splits[window].is, params |-> jobs[t].params,
                           raised |-> outcome.raised, metrics |-> outcome.metrics,
                           failed |-> Failed(window) + (IF outcome.raised THEN 1 ELSE 0)]
    /\ n_eval' = n_eval + 1
    /\ UNCHANGED <<config, pc, splits, error, window, trials, results, summary,
                   stopped, n_ask, multi, stored, run>>

\* The value objective returned is told to the study, which records it.
TellTrial ==
    /\ pc = "trials"
    /\ \E t \in 1..Len(jobs) :
          /\ jobs[t].stage = "telling"
          /\ jobs' = [jobs EXCEPT ![t].stage = "told"]
          /\ trials' = Append(trials, [params |-> jobs[t].params,
                                       value |-> objective(jobs[t].outcome, direction),
                                       number |-> t])
    /\ UNCHANGED <<config, pc, splits, error, window, results, summary, n_eval,
                   last_call, stopped, n_ask, multi, stored, run>>

\* study.optimize returns when every submitted trial is done and no more is
\* to be submitted.
PoolDone == InFlight = {} /\ ~CanSubmit(Len(jobs), n_trials)

NextWorkers ==
    \/ StartRun
    \/ Submit
    \/ Sample
    \/ Finish
    \/ TellTrial
    \/ PoolDone /\ NoBestTrial
    \/ PoolDone /\ EvaluateOos
    \/ Aggregate

SpecWorkers == InitWorkers /\ [][NextWorkers]_vars

(***************************************************************************)
(* The splitter alone, on every argument of the bounds.                    *)
(***************************************************************************)
\* The lengths of the bound and the 100 rows of the documented scenario.
SplitLens == (0..MaxLen) \cup {100}

InitSplit ==
    /\ total_len \in SplitLens
    /\ n_splits \in -1..MaxSplits
    /\ is_ratio \in RatioNames
    /\ direction = "maximize"
    /\ n_trials = 0
    /\ pc = "split"
    /\ splits = <<>>
    /\ error = "none"
    /\ window = 0
    /\ trials = <<>>
    /\ results = <<>>
    /\ summary = NoSummary
    /\ n_eval = 0
    /\ last_call = NoCall
    /\ timeout = "None"
    /\ stopped = FALSE
    /\ n_ask = 0
    /\ SingleCall
    /\ NoMultiObjective

Split ==
    /\ pc = "split"
    /\ LET r == split_walk_forward(total_len, n_splits, Ratio[is_ratio])
       IN  /\ splits' = r.splits
           /\ error' = r.error
    /\ pc' = "split_done"
    /\ UNCHANGED <<config, window, trials, results, summary, n_eval, last_call,
                   stopped, n_ask, multi,
                   jobs, stored, run>>

NextSplit == Split

SpecSplit == InitSplit /\ [][NextSplit]_vars

(***************************************************************************)
(* MultiObjectiveOptimizer.optimize                                        *)
(***************************************************************************)
\* The objectives of the service's example request.
Objectives == <<"sharpe_ratio", "max_drawdown">>

\* The direction lists tried: one per pair of directions, and a list shorter
\* than the objectives.
DirectionLists ==
    {<<d1, d2>> : d1 \in {"maximize", "minimize"}, d2 \in {"maximize", "minimize"}}
        \cup {<<"maximize">>}

\* The objective vectors backtest_func may report: (1.0, 0.1), (0.8, 0.05)
\* and (0.5, 0.5).
MultiVectors ==
    {<<Fin(1, 1), Fin(1, 10)>>, <<Fin(4, 5), Fin(1, 20)>>,
     <<Fin(1, 2), Fin(1, 2)>>}

\* The dicts backtest_func may return: both objectives, or the first one alone.
MultiMetricDicts ==
    {{<<Objectives[1], v[1]>>, <<Objectives[2], v[2]>>} : v \in MultiVectors}
        \cup {{<<Objectives[1], Fin(1, 1)>>}}

MultiOutcomes ==
    {[raised |-> TRUE, metrics |-> {}]}
        \cup {[raised |-> FALSE, metrics |-> m] : m \in MultiMetricDicts}

\* The param_space given to the multi-objective optimizer: one int parameter
\* with a step.  Its objective samples int parameters between low and high,
\* without the step.
MultiParamSpace == [fast_period |-> [type |-> "int", low |-> 5, high |-> 7, step |-> 2]]

MultiSuggestions ==
    {{<<"fast_period", v>>} :
        v \in MultiParamSpace.fast_period.low..MultiParamSpace.fast_period.high}

\* tuple(metrics.get(obj, 0.0) for obj in self.objectives)
MultiObjective(metrics, objs) ==
    [i \in 1..Len(objs) |-> Get(metrics, objs[i], Num(0))]

\* The study records the trial as COMPLETE when it got one value per
\* direction, and as FAIL (with a warning, without raising) otherwise.
Tell(number, params, values, dirs) ==
    IF Len(values) = Len(dirs)
    THEN [number |-> number, params |-> params, values |-> values,
          state |-> "COMPLETE"]
    ELSE [number |-> number, params |-> params, values |-> <<>>,
          state |-> "FAIL"]

\* The trial of an objective that raised.
FailedTrial(number, params) ==
    [number |-> number, params |-> params, values |-> <<>>, state |-> "FAIL"]

\* A comparison that takes every objective as one to minimise.
NormalizeValueMinimize(v, dir) == v

\* The study compares values as if every objective were minimised: the
\* value of a maximised objective is negated.
NormalizeValue(v, dir) == IF dir = "maximize" THEN XNeg(v) ELSE v

XLe(a, b) == a = b \/ XLt(a, b)

\* The dominance test of the study, on two COMPLETE trials.
Dominates(t0, t1, dirs) ==
    LET n0 == [i \in 1..Len(dirs) |-> NormalizeValue(t0.values[i], dirs[i])]
        n1 == [i \in 1..Len(dirs) |-> NormalizeValue(t1.values[i], dirs[i])]
    IN  /\ n0 # n1
        /\ \A i \in 1..Len(dirs) : XLe(n0[i], n1[i])

\* A study.best_trials that raises in a study without a COMPLETE trial, as
\* study.best_trial does.
best_trials_raising(ts, dirs) ==
    LET complete == SelectSeq(ts, LAMBDA t : t.state = "COMPLETE")
    IN  IF complete = <<>>
        THEN [error |-> "ValueError", trials |-> <<>>]
        ELSE [error |-> "none",
              trials |-> SelectSeq(complete, LAMBDA t :
                            \A k \in 1..Len(complete) :
                                ~Dominates(complete[k], t, dirs))]

\* study.best_trials: the COMPLETE trials no COMPLETE trial dominates, by
\* trial number.
best_trials(ts, dirs) ==
    LET complete == SelectSeq(ts, LAMBDA t : t.state = "COMPLETE")
    IN  [error |-> "none",
         trials |-> SelectSeq(complete, LAMBDA t :
                       \A k \in 1..Len(complete) :
                           ~Dominates(complete[k], t, dirs))]

\* What the sampler and backtest_func do at trial number k of a call: anything
\* in a first call, and what they did at trial k of the first call in a
\* second one.
Deterministic(k, params, outcome) ==
    first.made => (k <= Len(first.script) /\ first.script[k] = [params |-> params, outcome |-> outcome])

InitMulti ==
    /\ total_len = MaxRunLen
    /\ n_splits = 1
    /\ is_ratio = "r070"
    /\ direction = "maximize"
    /\ n_trials \in 0..MaxMultiTrials
    /\ pc = "optimize"
    /\ splits = <<>>
    /\ error = "none"
    /\ window = 0
    /\ trials = <<>>
    /\ results = <<>>
    /\ summary = NoSummary
    /\ n_eval = 0
    /\ last_call = NoCall
    /\ timeout = "None"
    /\ stopped = FALSE
    /\ n_ask = 0
    /\ SingleCall
    /\ objectives = Objectives
    /\ directions \in DirectionLists
    /\ front = NoFront
    /\ script = <<>>
    /\ first = NoRun

\* One trial of study.optimize: the parameters are sampled and backtest_func
\* runs on the data, outside any try; an exception fails the trial and leaves
\* study.optimize and optimize.
MultiTrial ==
    /\ pc = "optimize"
    /\ Len(script) < n_trials
    /\ \E params \in MultiSuggestions, outcome \in MultiOutcomes :
          /\ Deterministic(Len(script) + 1, params, outcome)
          /\ script' = Append(script, [params |-> params, outcome |-> outcome])
          /\ IF outcome.raised
             THEN /\ trials' = Append(trials, FailedTrial(Len(trials), params))
                  /\ pc' = "failed"
                  /\ error' = "BacktestError"
             ELSE /\ trials' = Append(trials,
                        Tell(Len(trials), params,
                             MultiObjective(outcome.metrics, objectives), directions))
                  /\ UNCHANGED <<pc, error>>
    /\ n_ask' = n_ask + 1
    /\ n_eval' = n_eval + 1
    /\ UNCHANGED <<config, splits, window, results, summary, last_call, stopped,
                   front, first,
                   jobs, stored, run>>

\* The rest of optimize once study.optimize has returned.
MultiReturn ==
    /\ pc = "optimize"
    /\ Len(script) >= n_trials
    /\ LET best == best_trials(trials, directions)
       IN  IF best.error # "none"
           THEN /\ pc' = "failed"
                /\ error' = best.error
                /\ UNCHANGED front
           ELSE /\ pc' = "done"
                /\ front' = [returned |-> TRUE, n_solutions |-> Len(best.trials),
                             pareto_trials |-> best.trials]
                /\ UNCHANGED error
    /\ UNCHANGED <<config, splits, window, trials, results, summary, n_eval,
                   last_call, stopped, n_ask, script, first,
                   jobs, stored, run>>

NextMulti == MultiTrial \/ MultiReturn

SpecMulti == InitMulti /\ [][NextMulti]_vars

(***************************************************************************)
(* Two calls of MultiObjectiveOptimizer.optimize, one after the other, on  *)
(* the same optimizer and data.                                            *)
(***************************************************************************)
InitTwice ==
    /\ total_len = MaxRunLen
    /\ n_splits = 1
    /\ is_ratio = "r070"
    /\ direction = "maximize"
    /\ n_trials \in 0..MaxTwiceTrials
    /\ pc = "optimize"
    /\ splits = <<>>
    /\ error = "none"
    /\ window = 0
    /\ trials = <<>>
    /\ results = <<>>
    /\ summary = NoSummary
    /\ n_eval = 0
    /\ last_call = NoCall
    /\ timeout = "None"
    /\ stopped = FALSE
    /\ n_ask = 0
    /\ SingleCall
    /\ objectives = Objectives
    /\ directions \in DirectionLists
    /\ front = NoFront
    /\ script = <<>>
    /\ first = NoRun

\* A second call that goes on with the study of the first one.
OptimizeAgainSameStudy ==
    /\ pc \in {"done", "failed"}
    /\ ~first.made
    /\ first' = [error |-> error, front |-> front, made |-> TRUE, script |-> script]
    /\ pc' = "optimize"
    /\ error' = "none"
    /\ front' = NoFront
    /\ script' = <<>>
    /\ UNCHANGED <<config, splits, window, trials, results, summary, n_eval,
                   last_call, stopped, n_ask,
                   jobs, stored, run>>

\* The second call: create_study is given no storage and makes a new study in
\* memory.
OptimizeAgain ==
    /\ pc \in {"done", "failed"}
    /\ ~first.made
    /\ first' = [error |-> error, front |-> front, made |-> TRUE, script |-> script]
    /\ pc' = "optimize"
    /\ error' = "none"
    /\ trials' = <<>>
    /\ front' = NoFront
    /\ script' = <<>>
    /\ UNCHANGED <<config, splits, window, results, summary, n_eval, last_call,
                   stopped, n_ask,
                   jobs, stored, run>>

NextTwice == MultiTrial \/ MultiReturn \/ OptimizeAgain

SpecTwice == InitTwice /\ [][NextTwice]_vars

(***************************************************************************)
(* Properties of the splitter.                                             *)
(***************************************************************************)
Rows(slice) == slice[1]..(slice[2] - 1)

WindowRows(pair) == Rows(pair.is) \cup Rows(pair.oos)

ValidConfig == total_len >= 1 /\ n_splits >= 1 /\ InOpenUnit(Ratio[is_ratio])

\* C1: for non-empty data, n_splits >= 1 and 0 < is_ratio < 1, in every
\* window returned the in-sample and the out-of-sample rows are disjoint and
\* the out-of-sample slice starts after the last in-sample row, and every row
\* of a window comes before every row of each later window.
C1_WindowsDisjointAndOrdered ==
    (pc = "split_done" /\ ValidConfig) =>
        /\ \A i \in 1..Len(splits) :
              /\ Rows(splits[i].is) \cap Rows(splits[i].oos) = {}
              /\ splits[i].oos[1] >= splits[i].is[2]
              /\ \A a \in Rows(splits[i].is), b \in Rows(splits[i].oos) : a < b
        /\ \A i, j \in 1..Len(splits) :
              i < j => \A a \in WindowRows(splits[i]), b \in WindowRows(splits[j]) : a < b

C1_Witness ==
    /\ pc = "split_done"
    /\ ValidConfig
    /\ Len(splits) >= 3
    /\ \A i \in 1..Len(splits) : Rows(splits[i].is) # {} /\ Rows(splits[i].oos) # {}

\* C2: with len(data) < n_splits the splitter does not raise, returns fewer
\* than n_splits windows and returns no window with an empty slice.
C2_FewerWindowsNoneEmpty ==
    (pc = "split_done" /\ 1 <= total_len /\ total_len < n_splits
                         /\ InOpenUnit(Ratio[is_ratio])) =>
        /\ error = "none"
        /\ Len(splits) < n_splits
        /\ \A i \in 1..Len(splits) : Rows(splits[i].is) # {} /\ Rows(splits[i].oos) # {}

\* C3: with w = len(data) // n_splits and s = int(w * is_ratio), the floor of
\* the double product, the i-th window returned (counting from 0) is
\* (data[i*w : i*w + s], data[i*w + s : min((i+1)*w, len(data))]); 100 rows
\* with n_splits = 5 and is_ratio = 0.7 give 5 windows of 14 and 6 rows.
C3_WindowBounds ==
    (pc = "split_done" /\ ValidConfig) =>
        LET w == total_len \div n_splits
            s == IsSize(w, Ratio[is_ratio])
        IN  /\ \A k \in 1..Len(splits) :
                  LET i == k - 1
                  IN  /\ splits[k].is = <<i * w, i * w + s>>
                      /\ splits[k].oos = <<i * w + s, Min((i + 1) * w, total_len)>>
            /\ (total_len = 100 /\ n_splits = 5 /\ is_ratio = "r070") =>
                  /\ Len(splits) = 5
                  /\ \A k \in 1..5 :
                        /\ Cardinality(Rows(splits[k].is)) = 14
                        /\ Cardinality(Rows(splits[k].oos)) = 6

C3_Witness ==
    /\ pc = "split_done"
    /\ total_len = 100 /\ n_splits = 5 /\ is_ratio = "r070"
    /\ Len(splits) = 5
    /\ splits[5] = [is |-> <<80, 94>>, oos |-> <<94, 100>>]

(***************************************************************************)
(* Properties of the trial loop and of the run.                            *)
(***************************************************************************)
\* The worst value of the configured direction, spelled out.
Worst == IF direction = "maximize" THEN NegInf ELSE PosInf

LastTrial == trials[Len(trials)]

\* The window whose out-of-sample backtest was the latest call had every
\* trial of its budget fail.
AllTrialsFailed == last_call.phase = "out_of_sample" /\ last_call.failed = n_trials

\* C4: a call with n_splits <= 0, is_ratio outside (0,1) or empty data fails
\* with InvalidWindowConfig before backtest_func is called at all.
C4_InvalidConfigRejected ==
    (pc # "run" /\ ~ValidConfig) => (error = "InvalidWindowConfig" /\ n_eval = 0)

\* C5: a trial whose backtest raised is recorded with the worst value of the
\* direction (-inf for maximize, +inf for minimize) and the study goes on:
\* no backtest exception leaves the trial loop and every window that reached
\* its out-of-sample evaluation ran all n_trials trials.
C5_FailedTrialRecordedWorst ==
    /\ (last_call.phase = "in_sample" /\ last_call.raised) =>
          /\ pc = "trials"
          /\ error = "none"
          /\ trials # <<>>
          /\ LastTrial.params = last_call.params
          /\ LastTrial.value = Worst
    /\ \A i \in 1..Len(results) : results[i].n_trials = n_trials
    /\ last_call.phase = "out_of_sample" => n_eval >= n_trials + 1

C5_Witness ==
    /\ pc = "aggregate"
    /\ n_trials = 2
    /\ last_call.failed = 1
    /\ results[1].n_trials = 2
    /\ results[1].is_metric = Num(1)

\* C6: a trial whose backtest returned metrics without the target metric is
\* recorded with the worst value of the direction.
C6_MissingMetricIsWorst ==
    (/\ ValidConfig
     /\ last_call.phase = "in_sample"
     /\ ~last_call.raised
     /\ ~\E kv \in last_call.metrics : kv[1] = Metric) =>
        LastTrial.value = Worst

\* C7: with n_trials = 0 the trial loop of a window does not raise and gives
\* the worst value of the direction with an empty parameter assignment.
C7_ZeroBudgetReturnsWorst ==
    (ValidConfig /\ n_trials = 0 /\ window >= 1 /\ pc # "trials") =>
        /\ error = "none"
        /\ results # <<>>
        /\ results[1].best_params = {}
        /\ results[1].is_metric = Worst

\* C8: when every trial of a window failed, the parameter assignment the trial
\* loop hands on as the best one is empty.
C8_AllFailedGivesEmptyParams ==
    (ValidConfig /\ AllTrialsFailed) => last_call.params = {}

\* C9: when every trial of a window failed, the run does not crash: the window
\* gets a result with the worst in-sample metric and the run goes on.
C9_AllFailedWindowHasResult ==
    (ValidConfig /\ AllTrialsFailed) =>
        /\ error = "none"
        /\ results # <<>>
        /\ results[Len(results)].window = last_call.window
        /\ results[Len(results)].is_metric = Worst

\* C10: in the summary, overfit_ratio is avg_is_oos_diff / avg_is_metric when
\* avg_is_metric is not 0 (the same float, NaN included) and exactly 0 when
\* it is 0, whatever the average gap.
C10_OverfitRatio ==
    pc = "done" =>
        /\ summary.avg_is_metric # Num(0) =>
              summary.overfit_ratio = XDiv(summary.avg_is_oos_diff, summary.avg_is_metric)
        /\ summary.avg_is_metric = Num(0) => summary.overfit_ratio = Num(0)

C10_Witness ==
    /\ pc = "done"
    /\ summary.n_windows = 2
    /\ summary.avg_is_metric = Num(0)
    /\ summary.avg_is_oos_diff = Fin(-1, 2)
    /\ summary.overfit_ratio = Num(0)

\* The windows of the run whose best parameters are params, and the first of them.
Occurrences(params) ==
    Cardinality({i \in 1..Len(results) : results[i].best_params = params})

FirstOccurrence(params) ==
    CHOOSE i \in 1..Len(results) :
        /\ results[i].best_params = params
        /\ \A j \in 1..(i - 1) : results[j].best_params # params

C12_NoWindowsProduced ==
    (n_splits # 0 /\ splits = <<>> /\ pc \in {"done", "failed"}) =>
        /\ pc = "failed"
        /\ error = "NoWindowsProduced"
        /\ summary = NoSummary

\* C13: a multi-objective optimizer whose objectives and directions differ in
\* length is rejected with ObjectiveDirectionMismatch before the sampler is
\* asked for anything and before backtest_func is called.
C13_MismatchRejectedFirst ==
    Len(objectives) # Len(directions) =>
        /\ n_ask = 0
        /\ n_eval = 0
        /\ pc \in {"done", "failed"} => error = "ObjectiveDirectionMismatch"

\* Comparison of two finite values, and the dominance rule on two objective
\* vectors: u is no worse than v on every objective and strictly better on
\* one, better meaning greater when the objective is maximised and smaller
\* when it is minimised.
Leq(a, b) == a.n * b.d <= b.n * a.d

NoWorse(u, v, i) ==
    IF directions[i] = "maximize" THEN Leq(v[i], u[i]) ELSE Leq(u[i], v[i])

StrictlyBetter(u, v, i) == NoWorse(u, v, i) /\ u[i] # v[i]

ParetoDominates(u, v) ==
    /\ \A i \in 1..Len(directions) : NoWorse(u, v, i)
    /\ \E i \in 1..Len(directions) : StrictlyBetter(u, v, i)

InFront(t) ==
    \E k \in 1..Len(front.pareto_trials) : front.pareto_trials[k] = t

ScenarioVectors ==
    <<(<<Fin(1, 1), Fin(1, 10)>>), (<<Fin(4, 5), Fin(1, 20)>>),
      (<<Fin(1, 2), Fin(1, 2)>>)>>

IsScenario ==
    /\ directions = <<"maximize", "minimize">>
    /\ Len(trials) = 3
    /\ \A i \in 1..3 : trials[i].values = ScenarioVectors[i]

\* C14: the front a multi-objective call returns is sound and complete: no
\* trial of the history dominates a trial of the front, and every trial of
\* the history outside the front is dominated by a trial of the front.  On
\* the vectors (1.0, 0.1), (0.8, 0.05), (0.5, 0.5), first objective maximised
\* and second minimised, the front is the first two trials.
C14_ParetoFront ==
    (Len(objectives) = Len(directions) /\ pc = "done") =>
        /\ front.n_solutions = Len(front.pareto_trials)
        /\ \A k \in 1..Len(front.pareto_trials) :
              \E i \in 1..Len(trials) : trials[i] = front.pareto_trials[k]
        /\ \A i \in 1..Len(trials) :
              IF InFront(trials[i])
              THEN \A j \in 1..Len(trials) :
                      ~ParetoDominates(trials[j].values, trials[i].values)
              ELSE \E j \in 1..Len(trials) :
                      /\ InFront(trials[j])
                      /\ ParetoDominates(trials[j].values, trials[i].values)
        /\ IsScenario => front.pareto_trials = <<trials[1], trials[2]>>

C14_Witness ==
    /\ pc = "done"
    /\ IsScenario
    /\ front.n_solutions = 2

\* The latest trial of the multi-objective call.
LastScript == script[Len(script)]

\* C15: in a multi-objective trial, an objective that the dict of
\* backtest_func lacks gets the worst value of that objective's direction.
C15_MissingObjectiveIsWorst ==
    (/\ Len(objectives) = Len(directions)
     /\ script # <<>>
     /\ ~LastScript.outcome.raised) =>
        \A i \in 1..Len(objectives) :
            (\A pr \in LastScript.outcome.metrics : pr[1] # objectives[i]) =>
                trials[Len(trials)].values[i]
                    = (IF directions[i] = "maximize" THEN NegInf ELSE PosInf)

\* C16: an exception of backtest_func in a multi-objective trial is recovered
\* inside the trial: the other trials of the budget run and the call returns
\* a front.
C16_MultiFailureRecovered ==
    (\E k \in 1..Len(script) : script[k].outcome.raised) =>
        /\ error = "none"
        /\ pc # "failed"
        /\ pc = "done" => (front.returned /\ Len(script) = n_trials)

\* C17: a multi-objective call with a budget of 0 trials never calls
\* backtest_func and returns an empty front, n_solutions = 0, without
\* raising.
C17_ZeroBudgetEmptyFront ==
    n_trials = 0 =>
        /\ n_eval = 0
        /\ n_ask = 0
        /\ pc # "failed"
        /\ error = "none"
        /\ pc = "done" =>
              /\ front.returned
              /\ front.n_solutions = 0
              /\ front.pareto_trials = <<>>

C17_Witness ==
    /\ n_trials = 0
    /\ pc = "done"
    /\ front.returned
    /\ front.n_solutions = 0

\* The parameter assignments and objective vectors of a returned front.
Solutions(f) ==
    {<<f.pareto_trials[k].params, f.pareto_trials[k].values>> :
        k \in 1..Len(f.pareto_trials)}

\* C20: a second multi-objective call, in which the sampler and backtest_func
\* do at each trial number what they did in the first call, ends as the first
\* one did and returns the same front: as many solutions, with the same
\* parameter assignments and objective vectors.
C20_SecondCallSameFront ==
    (first.made /\ pc \in {"done", "failed"}) =>
        /\ error = first.error
        /\ front.returned = first.front.returned
        /\ front.n_solutions = first.front.n_solutions
        /\ Solutions(front) = Solutions(first.front)

C20_Witness ==
    /\ first.made
    /\ pc = "done"
    /\ front.n_solutions = 2
    /\ Len(trials) = 2

\* The trials of the windows that have a result.
RECURSIVE TrialsOf(_)
TrialsOf(rs) == IF rs = <<>> THEN 0 ELSE rs[1].n_trials + TrialsOf(Tail(rs))

C19_TimeoutKeepsRun ==
    stopped => (pc # "failed" /\ error = "none")

\* The order of the objective values: -inf below every finite value, +inf
\* above, finite values by their fractions.
Rank(v) == IF v.k = "ninf" THEN 0 ELSE IF v.k = "fin" THEN 1 ELSE 2

Below(a, b) ==
    \/ Rank(a) < Rank(b)
    \/ Rank(a) = 1 /\ Rank(b) = 1 /\ a.n * b.d < b.n * a.d

\* b is at least as good as a in the configured direction.
NotBeaten(b, a) == IF direction = "maximize" THEN ~Below(b, a) ELSE ~Below(a, b)

\* The step in which a window gets its result.
WindowReturns == Len(results') = Len(results) + 1

NewResult == results'[Len(results')]

\* C21: the in-sample metric a window returns is the maximum (maximize) or
\* the minimum (minimize) of the values recorded in the window, and
\* best_params is the assignment of the earliest recorded trial with that
\* value: a later trial that ties does not replace it.
C21_BestIsEarliestOptimum ==
    [][WindowReturns =>
          \E k \in 1..Len(trials) :
              /\ NewResult.is_metric = trials[k].value
              /\ NewResult.best_params = trials[k].params
              /\ \A j \in 1..Len(trials) : NotBeaten(trials[k].value, trials[j].value)
              /\ \A j \in 1..(k - 1) : trials[j].value # trials[k].value]_vars

\* A window of two trials, neither of which raised, whose best value is the
\* smallest finite one: both trials have it.
C21_Witness ==
    /\ direction = "maximize"
    /\ results # <<>>
    /\ results[1].n_trials = 2
    /\ results[1].is_metric = Num(-1)
    /\ last_call.phase = "out_of_sample"
    /\ last_call.failed = 0

\* The step in which backtest_func is called on out-of-sample data.
OosCall == n_eval' = n_eval + 1 /\ last_call'.phase = "out_of_sample"

\* C24: in every window backtest_func is called on the out-of-sample slice
\* exactly once, with the best parameters of the window and only after all
\* the in-sample trials of the window; the sampler is not asked for anything
\* on the out-of-sample slice.
C24_OosEvaluatedOnce ==
    /\ [](n_eval = n_ask + Len(results) + (IF error = "BacktestError" THEN 1 ELSE 0))
    /\ [][OosCall =>
            /\ Len(trials) = n_trials
            /\ n_ask' = n_ask
            /\ last_call'.window = window
            /\ last_call'.data = splits[window].oos
            /\ \E k \in 1..Len(trials) :
                  /\ last_call'.params = trials[k].params
                  /\ \A j \in 1..Len(trials) :
                        NotBeaten(trials[k].value, trials[j].value)]_vars

C24_Witness ==
    /\ n_trials = 2
    /\ last_call.phase = "out_of_sample"
    /\ ~last_call.raised
    /\ n_eval = 3
    /\ n_ask = 2
    /\ Len(results) = 1
    /\ results[1].n_trials = 2

\* C25: the windows are processed one after the other in window order: the
\* trials of a window run only when every earlier window has its result,
\* the results are in window order, one per window the splitter returned,
\* and n_windows of the summary is the number of those windows.
C25_WindowsInOrder ==
    /\ \A i \in 1..Len(results) : results[i].window = i
    /\ Len(results) <= Len(splits)
    /\ pc = "trials" => Len(results) = window - 1
    /\ last_call.phase = "in_sample" => last_call.window = Len(results) + 1
    /\ (last_call.phase = "out_of_sample" /\ ~last_call.raised) =>
          last_call.window = Len(results)
    /\ pc = "done" =>
          /\ Len(results) = Len(splits)
          /\ summary.n_windows = Len(splits)

C25_Witness ==
    /\ pc = "done"
    /\ Len(splits) = 2
    /\ summary.n_windows = 2
    /\ results[1].window = 1
    /\ results[2].window = 2
    /\ n_eval = 4

\* The difference and the arithmetic mean, written out for values that are
\* finite or -inf (the in-sample metric of a window whose trials all failed).
Minus(a, b) ==
    IF a.k = "fin" /\ b.k = "fin" THEN Fin(a.n * b.d - b.n * a.d, a.d * b.d)
    ELSE a

RECURSIVE Total(_)
Total(xs) ==
    IF xs = <<>> THEN Fin(0, 1)
    ELSE LET rest == Total(Tail(xs))
         IN  Fin(xs[1].n * rest.d + rest.n * xs[1].d, xs[1].d * rest.d)

MeanOf(xs) ==
    IF \E i \in 1..Len(xs) : xs[i].k = "ninf" THEN NegInf
    ELSE Fin(Total(xs).n, Total(xs).d * Len(xs))

\* C26: every window result has is_oos_diff = is_metric - oos_metric, and in
\* the summary avg_is_metric, avg_oos_metric and avg_is_oos_diff are the
\* arithmetic means of these fields over the window results, so that
\* avg_is_oos_diff = avg_is_metric - avg_oos_metric.
C26_GapAndMeans ==
    /\ \A i \in 1..Len(results) :
          results[i].is_oos_diff = Minus(results[i].is_metric, results[i].oos_metric)
    /\ pc = "done" =>
          /\ summary.avg_is_metric
                = MeanOf([i \in 1..Len(results) |-> results[i].is_metric])
          /\ summary.avg_oos_metric
                = MeanOf([i \in 1..Len(results) |-> results[i].oos_metric])
          /\ summary.avg_is_oos_diff
                = MeanOf([i \in 1..Len(results) |-> results[i].is_oos_diff])
          /\ summary.avg_is_oos_diff
                = Minus(summary.avg_is_metric, summary.avg_oos_metric)

C26_Witness ==
    /\ pc = "done"
    /\ Len(results) = 2
    /\ results[1].is_metric = Num(1)
    /\ results[2].is_metric = Num(0)
    /\ summary.avg_is_metric = Fin(1, 2)
    /\ summary.avg_oos_metric = Fin(-1, 2)
    /\ summary.avg_is_oos_diff = Num(1)

\* The rows handed to the latest call of backtest_func.
GivenRows == Rows(last_call.data)

\* C29: no look-ahead.  Every call of backtest_func during the search of a
\* window receives exactly the in-sample slice of that window, with no row of
\* its out-of-sample slice or of another window, and the out-of-sample
\* evaluation of a window receives exactly its out-of-sample slice.
C29_NoLookAhead ==
    last_call.phase # "none" =>
        LET w == last_call.window
        IN  /\ w \in 1..Len(splits)
            /\ last_call.phase = "in_sample" =>
                  /\ last_call.data = splits[w].is
                  /\ GivenRows \cap Rows(splits[w].oos) = {}
            /\ last_call.phase = "out_of_sample" =>
                  /\ last_call.data = splits[w].oos
                  /\ GivenRows \cap Rows(splits[w].is) = {}
            /\ \A v \in 1..Len(splits) :
                  v # w => GivenRows \cap WindowRows(splits[v]) = {}

C29_Witness ==
    /\ last_call.phase = "in_sample"
    /\ last_call.window = 2
    /\ GivenRows = {2}
    /\ Rows(splits[2].oos) = {3}
    /\ WindowRows(splits[1]) = {0, 1}

\* C30: when backtest_func raises in the out-of-sample evaluation of a
\* window, the exception is not caught: the run ends with it, the window and
\* the windows after it get no result and no summary is returned.
C30_OosFailurePropagates ==
    /\ (last_call.phase = "out_of_sample" /\ last_call.raised) =>
          /\ pc = "failed"
          /\ error = "BacktestError"
          /\ summary = NoSummary
          /\ Len(results) = last_call.window - 1
          /\ window = last_call.window
    /\ error = "BacktestError" =>
          (last_call.phase = "out_of_sample" /\ last_call.raised)

C30_Witness ==
    /\ error = "BacktestError"
    /\ pc = "failed"
    /\ Len(splits) = 2
    /\ last_call.window = 1
    /\ results = <<>>
    /\ n_eval = 2

\* The assignments consistent with a space of int parameters: one value per
\* declared name, on the grid low, low + step, ... up to high.
OnGrid(v, cfg) ==
    /\ cfg.low <= v
    /\ v <= cfg.high
    /\ (v - cfg.low) % cfg.step = 0

Consistent(params, space) ==
    /\ {kv[1] : kv \in params} = DOMAIN space
    /\ \A kv \in params :
          /\ \A other \in params : other[1] = kv[1] => other = kv
          /\ OnGrid(kv[2], space[kv[1]])

\* C28: every assignment handed to backtest_func, in a walk-forward trial
\* and in a multi-objective trial alike, is consistent with the declared
\* space: one value per declared parameter, within the bounds and on the
\* step.
C28_ParamsConsistentWithSpace ==
    /\ last_call.phase = "in_sample" => Consistent(last_call.params, ParamSpace)
    /\ \A k \in 1..Len(script) : Consistent(script[k].params, MultiParamSpace)

\* C27: the trial history of a window study belongs to one call of
\* run_walk_forward: in a second call with the same configuration (same
\* study_name and storage) every window study starts empty, so that it holds
\* only trials of that call and the window's result counts only those.
C27_FreshStudyPerRun ==
    run = 2 =>
        /\ pc = "trials" => Len(trials) <= n_ask
        /\ \A i \in 1..Len(results) : results[i].n_trials = n_trials

\* The submitted trials that are past a stage.
Asked == {t \in 1..Len(jobs) : jobs[t].stage # "asking"}

Evaluated == {t \in 1..Len(jobs) : jobs[t].stage \in {"telling", "told"}}

Told == {t \in 1..Len(jobs) : jobs[t].stage = "told"}

\* C22: with several workers in the trial loop of a window, at most one worker
\* at a time is asking the sampler for parameters or telling a value to the
\* study.
C22_AskTellSerialized ==
    Cardinality({t \in 1..Len(jobs) : jobs[t].stage \in {"asking", "telling"}}) <= 1

\* C23: for every number of workers and every interleaving, the trial loop
\* of a window without timeout makes exactly n_trials trials: never more are
\* submitted, each is asked once, then evaluated once on the in-sample
\* slice, then told once, with the worst value when backtest_func raised,
\* and when the loop returns all n_trials trials are told.
C23_ExactlyBudgetTrials ==
    /\ [](/\ Len(jobs) <= n_trials
          /\ pc = "trials" =>
                /\ n_ask = Cardinality(Asked)
                /\ n_eval = Cardinality(Evaluated)
                /\ Len(trials) = Cardinality(Told)
                /\ \A k \in 1..Len(trials) :
                      /\ trials[k].number \in Told
                      /\ trials[k].params = jobs[trials[k].number].params
                      /\ trials[k].value =
                            (IF jobs[trials[k].number].outcome.raised
                             THEN NegInf
                             ELSE Get(jobs[trials[k].number].outcome.metrics,
                                      "sharpe_ratio", Fin(0, 1)))
                      /\ \A j \in 1..Len(trials) :
                            trials[j].number = trials[k].number => j = k
          /\ \A i \in 1..Len(results) : results[i].n_trials = n_trials)
    /\ [][OosCall =>
            /\ Len(jobs) = n_trials
            /\ Told = 1..n_trials
            /\ Len(trials) = n_trials
            /\ n_ask = n_trials
            /\ n_eval = n_trials]_vars

\* Two workers, two trials, the second trial told before the first, which
\* had raised.
C23_Witness ==
    /\ n_jobs = 2
    /\ n_trials = 2
    /\ pc = "trials"
    /\ Len(trials) = 2
    /\ trials[1].number = 2
    /\ trials[2].number = 1
    /\ trials[2].value = NegInf

====
